---- MODULE Spec2Model ----
(***************************************************************************)
(* Model of cmd/backendapi/apisrv/apisrv.go: the backend API server of     *)
(* open-match.  CreateMatch writes a profile to state storage, queues a    *)
(* request key for the matchmaking functions (MMF) and watches the request *)
(* key for the result; ListMatches calls CreateMatch in a loop until the   *)
(* stream's context is cancelled.  CreateAssignments writes the            *)
(* assignments of the players of its rosters and moves their ids from the  *)
(* ignore list "proposed" to "deindexed"; DeleteAssignments clears the     *)
(* assignments of a roster.  All handlers log with the package variable    *)
(* beLog, which each of them assigns.                                      *)
(*                                                                         *)
(* Go strings are TLA+ strings ("" is the empty string, + is \o).  A Go    *)
(* error is a sequence: <<>> is nil, <<msg>> is a non-nil error whose      *)
(* Error() is msg.                                                         *)
(***************************************************************************)
EXTENDS Integers, Sequences, FiniteSets, TLC

\* ---------------------------------------------------------------- bounds
\* Number of CreateMatch invocations (ids handed out by xid.New()) in a run.
MaxCalls == 2

\* Number of players in the rosters of one CreateAssignments or
\* DeleteAssignments call.
MaxPlayers == 3

\* The goroutines that run CreateMatch: the handler of a client that calls
\* the CreateMatch RPC again and again, and the handler of a ListMatches
\* stream.  Each has a context of its own, named like the goroutine.
Procs == {"rpc", "stream"}

\* ------------------------------------------------------------ data model
\* The caller-supplied profile ids and properties documents.
ProfileIds == {"p1"}
Docs == {"{}", "{"}

\* gjson.Valid: the well-formed JSON documents among those of the model.
gjsonValid(json) == json \in {"{}", "{\"r\":1}"}

\* backend.MatchObject, restricted to the fields the server reads or writes.
MatchObject(id, properties, error) ==
    [Id |-> id, Properties |-> properties, Error |-> error]

\* &backend.MatchObject{}
EmptyMO == MatchObject("", "", "")

Profiles == {MatchObject(id, d, "") : id \in ProfileIds, d \in Docs}

\* What an MMF may write to a request key: properties and error of the result.
WorkerResults ==
    { [Properties |-> "{\"r\":1}", Error |-> ""],
      [Properties |-> "{",         Error |-> ""],
      [Properties |-> "",          Error |-> "insufficient players"] }

\* The error of a failed state storage call (whatever made it fail).
StoreErrors == {"redis: connection refused"}

\* context.Canceled.Error()
CtxCanceled == "context canceled"

nil == <<>>
errorsNew(msg) == <<msg>>

\* strings.Contains(s, sub)
Contains(s, sub) ==
    \E k \in 1 .. (Len(s) - Len(sub) + 1) : SubSeq(s, k, k + Len(sub) - 1) = sub

\* The context of the ListMatches stream.
StreamTok == "stream"

\* The player ids a caller may send ("" is a player without an id) and the
\* assignments a player may carry ("" is a player without one of its own).
PlayerIds == {"", "p1", "p2"}
PlayerAssignments == {"", "srvB"}

\* backend.Player and backend.Roster, restricted to the fields the server reads.
Player(id, asg) == [Id |-> id, Assignment |-> asg]
Roster(players) == [Players |-> players]

Players == {Player(id, asg) : id \in PlayerIds, asg \in PlayerAssignments}

\* No two players of a roster share an id that is not empty.
UniqueIds(ps) ==
    \A m, n \in 1 .. Len(ps) : (m # n /\ ps[m].Id = ps[n].Id) => ps[m].Id = ""

\* The rosters of n players, and the lists of one or two rosters that hold n
\* players together.
RostersOf(n) == {Roster(ps) : ps \in {q \in [1 .. n -> Players] : UniqueIds(q)}}
RosterLists(n) ==
    {<<r>> : r \in RostersOf(n)}
      \cup UNION {{<<r1, r2>> : r1 \in RostersOf(k), r2 \in RostersOf(n - k)} : k \in 0 .. n}

\* backend.Assignments: the default assignment and the rosters.
Assignments ==
    {[Assignment |-> "srvA", Rosters |-> rs] :
        rs \in {<<>>} \cup UNION {RosterLists(n) : n \in 0 .. MaxPlayers}}

\* The rosters passed to DeleteAssignments, which reads the ids only.
DeleteRosters ==
    {r \in UNION {RostersOf(n) : n \in 0 .. MaxPlayers} :
        \A k \in 1 .. Len(r.Players) : r.Players[k].Assignment = ""}

\* &backend.Result{}
Result(success, error) == [Success |-> success, Error |-> error]

VARIABLES
    xidCount,   \* number of ids handed out by xid.New()
    store,      \* state storage: key -> record
    profileq,   \* the set "queues.profiles.name" of queued request keys
    fired,      \* the contexts that are done (cancelled by their client)
    cm,         \* goroutine -> frame of its CreateMatch invocation
    watch,      \* goroutine -> state of the channel returned by Watcher
    lm,         \* frame of the ListMatches call
    emitted,    \* messages passed to matchStream.Send, in order
    issued,     \* the request keys made by CreateMatch so far, in order
    assignment, \* state storage: player id -> field "assignment" of the player
    proposed,   \* state storage: the ignore list "proposed"
    deindexed,  \* state storage: the ignore list "deindexed"
    ca,         \* frame of the CreateAssignments or DeleteAssignments call
    beLog,      \* the package variable beLog: the fields of the log entry
    lg          \* goroutine -> its position in the logging code of its handler

\* The variables of CreateMatch and ListMatches, those of the assignment
\* calls and those of the logging context.
matchVars == <<xidCount, store, profileq, fired, cm, watch, lm, emitted, issued>>
assignVars == <<assignment, proposed, deindexed, ca>>
logVars == <<beLog, lg>>

vars == <<matchVars, assignVars, logVars>>

\* A frame of CreateMatch that has not been entered.  ops logs the state
\* storage calls of the invocation, errors and requests count what it records
\* on BeGrpcErrors and BeGrpcRequests.
IdleFrame ==
    [pc |-> "idle", tok |-> "", profile |-> EmptyMO, moID |-> "", requestKey |-> "",
     newMO |-> EmptyMO, ret |-> EmptyMO, err |-> nil, ops |-> <<>>,
     errors |-> 0, requests |-> 0]

\* The channel of a Watcher that has not been started.
NoWatch == [state |-> "none", val |-> EmptyMO, cause |-> "", key |-> ""]

\* The frame of ListMatches before the call.  started logs the moIDs of the
\* inner CreateMatch invocations, in the order they were made.
IdleStream ==
    [pc |-> "idle", p |-> EmptyMO, ret |-> nil, started |-> <<>>,
     errors |-> 0, requests |-> 0]

\* No call has been made: the state storage is empty.
MatchInit ==
    /\ xidCount = 0
    /\ store = << >>
    /\ profileq = {}
    /\ fired = {}
    /\ cm = [g \in Procs |-> IdleFrame]
    /\ watch = [g \in Procs |-> NoWatch]
    /\ lm = IdleStream
    /\ emitted = <<>>
    /\ issued = <<>>

\* The frame of CreateAssignments or DeleteAssignments before the call.
\* players and playerIDs are the locals of CreateAssignments, assignments the
\* local of DeleteAssignments, err the result of the batch write or clear;
\* ops logs the state storage calls with their arguments, metrics the
\* measures recorded; pre is the state storage as the call found it, calls
\* the methods called so far.
IdleAssign ==
    [pc |-> "idle", fn |-> "", a |-> [Assignment |-> "", Rosters |-> <<>>],
     r |-> Roster(<<>>), players |-> << >>, playerIDs |-> <<>>,
     assignments |-> <<>>, err |-> nil, ops |-> <<>>, metrics |-> <<>>,
     ret |-> Result(FALSE, ""), reterr |-> nil,
     pre |-> [assignment |-> << >>, proposed |-> {}, deindexed |-> {}],
     calls |-> {}]

\* No player has an assignment or is on an ignore list.
AssignInit ==
    /\ assignment = [p \in PlayerIds |-> ""]
    /\ proposed = {}
    /\ deindexed = {}
    /\ ca = IdleAssign

\* A goroutine that runs no handler: entry is the log entry it read from
\* beLog and has not assigned yet, used the entries it logged with.
IdleLog ==
    [pc |-> "idle", fn |-> "", profileID |-> "", moID |-> "", requestKey |-> "",
     entry |-> << >>, used |-> <<>>]

\* var beLog = log.WithFields(beLogFields)
beLogFields == [app |-> "openmatch", component |-> "backend"]

LogInit ==
    /\ beLog = beLogFields
    /\ lg = [g \in Procs |-> IdleLog]

Init == MatchInit /\ AssignInit /\ LogInit

\* xid.New().String(): a globally unique id.
xidNew == "x" \o ToString(xidCount + 1)

\* RequestKey without the unique id.
RequestKey_NoXid(moID, profile) == profile.Id

\* requestKey := moID + "." + profile.Id
RequestKey(moID, profile) == moID \o "." \o profile.Id

\* The key redispb reads and writes a message under: the Id of the message
\* it is handed.  CreateMatch hands MarshalToRedis the profile itself, whose
\* Id it never changes, and hands Watcher a MatchObject{Id: requestKey}.
MarshalKey(pb) == pb.Id

\* EnterFrame with one moID made when the server starts, not one per call.
EnterFrame_FixedID(c, profile) ==
    [IdleFrame EXCEPT !.pc = "write", !.tok = c, !.profile = profile,
                      !.moID = "x0",
                      !.requestKey = RequestKey("x0", profile)]

\* The frame of CreateMatch after its prologue: a fresh moID and the request
\* key; ctx is derived from the caller's context c.  (The conversion of JSON
\* pools and rosters found in the properties changes neither Id nor
\* Properties.)
EnterFrame(c, profile) ==
    [IdleFrame EXCEPT !.pc = "write", !.tok = c, !.profile = profile,
                      !.moID = xidNew,
                      !.requestKey = RequestKey(xidNew, profile)]

\* A client calls the CreateMatch RPC with a profile of its own and a fresh
\* context, once its previous call has returned.
RpcCreateMatch ==
    /\ cm["rpc"].pc \in {"idle", "done"}
    /\ xidCount < MaxCalls
    /\ \E profile \in Profiles :
         cm' = [cm EXCEPT !["rpc"] = EnterFrame("rpc", profile)]
    /\ watch' = [watch EXCEPT !["rpc"] = NoWatch]
    /\ fired' = fired \ {"rpc"}
    /\ xidCount' = xidCount + 1
    /\ issued' = Append(issued, cm'["rpc"].requestKey)
    /\ UNCHANGED <<store, profileq, lm, emitted>>
    /\ UNCHANGED <<assignVars, logVars>>

\* An entry of the log of the state storage calls of an invocation: the
\* call, the key it was made on and whether it succeeded.
Op(name, key, ok) == [op |-> name, key |-> key, ok |-> ok]

\* FailStorage without its return: the error is counted and execution falls
\* through to the next storage call.
FailStorage_NoReturn(f, e) ==
    [f EXCEPT !.pc = IF f.pc = "write" THEN "enqueue" ELSE "watcher", !.errors = @ + 1]

\* "Failure! Return empty match object and the error"
FailStorage(f, e) ==
    [f EXCEPT !.pc = "done", !.errors = @ + 1, !.ret = EmptyMO, !.err = errorsNew(e)]

\* redispb.MarshalToRedis(ctx, s.pool, profile, ttl) and the check of its error.
CMWrite(i) ==
    /\ cm[i].pc = "write"
    /\ LET key == MarshalKey(cm[i].profile) IN
       \/ /\ store' = (key :> cm[i].profile) @@ store
          /\ cm' = [cm EXCEPT ![i].pc = "enqueue",
                              ![i].ops = Append(@, Op("write", key, TRUE))]
       \/ /\ \E e \in StoreErrors :
               cm' = [cm EXCEPT ![i] =
                        FailStorage([cm[i] EXCEPT !.ops = Append(@, Op("write", key, FALSE))], e)]
          /\ UNCHANGED store
    /\ UNCHANGED <<xidCount, profileq, fired, watch, lm, emitted>>
    /\ UNCHANGED <<issued, assignVars, logVars>>

\* redisHelpers.Update(ctx, s.pool, queue, requestKey) and the check of its error.
CMEnqueue(i) ==
    /\ cm[i].pc = "enqueue"
    /\ LET key == cm[i].requestKey IN
       \/ /\ profileq' = profileq \cup {key}
          /\ cm' = [cm EXCEPT ![i].pc = "watcher",
                              ![i].ops = Append(@, Op("enqueue", key, TRUE))]
       \/ /\ \E e \in StoreErrors :
               cm' = [cm EXCEPT ![i] =
                        FailStorage([cm[i] EXCEPT !.ops = Append(@, Op("enqueue", key, FALSE))], e)]
          /\ UNCHANGED profileq
    /\ UNCHANGED <<xidCount, store, fired, watch, lm, emitted>>
    /\ UNCHANGED <<issued, assignVars, logVars>>

\* watchChan := redispb.Watcher(watcherBOCtx, s.pool, backend.MatchObject{Id: requestKey})
CMOpenWatch(i) ==
    /\ cm[i].pc = "watcher"
    /\ LET key == MarshalKey(MatchObject(cm[i].requestKey, "", "")) IN
       /\ watch' = [watch EXCEPT ![i] = [NoWatch EXCEPT !.state = "open", !.key = key]]
       /\ cm' = [cm EXCEPT ![i].pc = "recv", ![i].ops = Append(@, Op("watch", key, TRUE))]
    /\ UNCHANGED <<xidCount, store, profileq, fired, lm, emitted>>
    /\ UNCHANGED <<issued, assignVars, logVars>>

\* redispb.Watcher, a goroutine polling the key with a backoff: it sends the
\* record on the channel once the key holds one and the context is not done.
WatcherDeliver(i) ==
    /\ watch[i].state = "open"
    /\ cm[i].tok \notin fired
    /\ watch[i].key \in DOMAIN store
    /\ watch' = [watch EXCEPT ![i].state = "value", ![i].val = store[watch[i].key]]
    /\ UNCHANGED <<xidCount, store, profileq, fired, cm, lm, emitted>>
    /\ UNCHANGED <<issued, assignVars, logVars>>

\* redispb.Watcher closes the channel without a value when its context is
\* done or when the backoff has reached its time limit.
WatcherClose(i) ==
    /\ watch[i].state = "open"
    /\ \E cause \in {"timeout"} \cup (IF cm[i].tok \in fired THEN {"cancel"} ELSE {}) :
         watch' = [watch EXCEPT ![i].state = "closed", ![i].cause = cause]
    /\ UNCHANGED <<xidCount, store, profileq, fired, cm, lm, emitted>>
    /\ UNCHANGED <<issued, assignVars, logVars>>

\* watcherBOCtx.Context().Err(): ctx is a child of the caller's context.
CtxErr(tok) == IF tok \in fired THEN errorsNew(CtxCanceled) ELSE nil

\* ChannelClosed returning the diagnostic with a nil error.
ChannelClosed_NilError(f) ==
    LET msg == IF CtxErr(f.tok) # nil
               THEN "channel closed: " \o CtxErr(f.tok)[1]
               ELSE "channel closed: backoff deadline exceeded"
        mo  == [EmptyMO EXCEPT !.Error = msg]
    IN  [f EXCEPT !.pc = "done", !.requests = @ + 1, !.newMO = mo, !.ret = mo]

\* ChannelClosed with the two diagnostics swapped.
ChannelClosed_Swapped(f) ==
    LET msg == IF CtxErr(f.tok) = nil
               THEN "channel closed: " \o CtxCanceled
               ELSE "channel closed: backoff deadline exceeded"
        mo  == [EmptyMO EXCEPT !.Error = msg]
    IN  [f EXCEPT !.pc = "done", !.requests = @ + 1, !.newMO = mo, !.ret = mo,
                  !.err = errorsNew("Error retrieving matchmaking results from state storage: " \o msg)]

\* ChannelClosed without the look at the context: one diagnostic for both.
ChannelClosed_AlwaysDeadline(f) ==
    LET msg == "channel closed: backoff deadline exceeded"
        mo  == [EmptyMO EXCEPT !.Error = msg]
    IN  [f EXCEPT !.pc = "done", !.requests = @ + 1, !.newMO = mo, !.ret = mo,
                  !.err = errorsNew("Error retrieving matchmaking results from state storage: " \o msg)]

\* newMO, ok := <-watchChan with ok false: the channel was closed.
ChannelClosed(f) ==
    LET msg == IF CtxErr(f.tok) # nil
               THEN "channel closed: " \o CtxErr(f.tok)[1]
               ELSE "channel closed: backoff deadline exceeded"
        mo  == [EmptyMO EXCEPT !.Error = msg]
    IN  [f EXCEPT !.pc = "done", !.requests = @ + 1, !.newMO = mo, !.ret = mo,
                  !.err = errorsNew("Error retrieving matchmaking results from state storage: " \o msg)]

\* CheckProperties validating the properties of the match object received.
CheckProperties_OfResult(profile, newMO) ==
    IF ~gjsonValid(newMO.Properties)
    THEN [newMO EXCEPT !.Error = "retreived properties json was malformed"]
    ELSE newMO

\* The error checking of the received match object: the properties of the
\* profile passed to CreateMatch are validated, not those of newMO.
CheckProperties(profile, newMO) ==
    IF ~gjsonValid(profile.Properties)
    THEN [newMO EXCEPT !.Error = "retreived properties json was malformed"]
    ELSE newMO

\* ChannelValue without the test of newMO.Error.
ChannelValue_NoErrorTest(f, v) ==
    LET mo == CheckProperties(f.profile, v)
    IN  [f EXCEPT !.pc = "done", !.requests = @ + 1, !.newMO = mo, !.ret = mo,
                  !.err = f.err]

\* newMO, ok := <-watchChan with ok true, to the end of CreateMatch.
ChannelValue(f, v) ==
    LET mo == CheckProperties(f.profile, v)
    IN  IF mo.Error # ""
        THEN [f EXCEPT !.pc = "done", !.errors = @ + 1, !.newMO = mo, !.ret = mo,
                       !.err = errorsNew(mo.Error)]
        ELSE [f EXCEPT !.pc = "done", !.requests = @ + 1, !.newMO = mo, !.ret = mo,
                       !.err = f.err]

\* The receive from watchChan and the rest of CreateMatch.
CMRecv(i) ==
    /\ cm[i].pc = "recv"
    /\ watch[i].state \in {"value", "closed"}
    /\ cm' = [cm EXCEPT ![i] = IF watch[i].state = "closed"
                                THEN ChannelClosed(cm[i])
                                ELSE ChannelValue(cm[i], watch[i].val)]
    /\ UNCHANGED <<xidCount, store, profileq, fired, watch, lm, emitted>>
    /\ UNCHANGED <<issued, assignVars, logVars>>

\* An MMF takes a request key from the queue and writes its result to it.
MMFWrite ==
    /\ \E k \in profileq, r \in WorkerResults :
         /\ profileq' = profileq \ {k}
         /\ store' = (k :> MatchObject(k, r.Properties, r.Error)) @@ store
    /\ UNCHANGED <<xidCount, fired, cm, watch, lm, emitted>>
    /\ UNCHANGED <<issued, assignVars, logVars>>

\* The contexts of the RPCs in progress.
ActiveToks ==
    (IF cm["rpc"].pc \notin {"idle", "done"} THEN {"rpc"} ELSE {})
      \cup (IF lm.pc \notin {"idle", "done"} THEN {StreamTok} ELSE {})

\* The client of an RPC in progress cancels it (or disconnects).
Cancel ==
    /\ \E t \in ActiveToks \ fired : fired' = fired \cup {t}
    /\ UNCHANGED <<xidCount, store, profileq, cm, watch, lm, emitted>>
    /\ UNCHANGED <<issued, assignVars, logVars>>

\* A client calls the ListMatches RPC: the code before the loop.
RpcListMatches ==
    /\ lm.pc = "idle"
    /\ \E p \in Profiles : lm' = [lm EXCEPT !.pc = "check", !.p = p]
    /\ UNCHANGED <<xidCount, store, profileq, fired, cm, watch, emitted>>
    /\ UNCHANGED <<issued, assignVars, logVars>>

\* case <-ctx.Done(): of the select at the top of the loop.
CtxDone(tok) == tok \in fired

\* One pass through the select: return nil when the context is done, else
\* clone p and enter CreateMatch with the stream's context.
LMCheck ==
    /\ lm.pc = "check"
    /\ IF CtxDone(StreamTok)
       THEN /\ lm' = [lm EXCEPT !.pc = "done", !.requests = @ + 1, !.ret = nil]
            /\ UNCHANGED <<cm, watch, xidCount, issued>>
       ELSE /\ xidCount < MaxCalls
            /\ cm' = [cm EXCEPT !["stream"] = EnterFrame(StreamTok, lm.p)]
            /\ watch' = [watch EXCEPT !["stream"] = NoWatch]
            /\ xidCount' = xidCount + 1
            /\ issued' = Append(issued, cm'["stream"].requestKey)
            /\ lm' = [lm EXCEPT !.pc = "call", !.started = Append(@, xidNew)]
    /\ UNCHANGED <<store, profileq, fired, emitted>>
    /\ UNCHANGED <<assignVars, logVars>>

\* LMAfterCall sending mo whatever err is.
LMAfterCall_SendOnError ==
    /\ lm.pc = "call"
    /\ cm["stream"].pc = "done"
    /\ emitted' = Append(emitted, [mo |-> cm["stream"].ret,
                                   moID |-> cm["stream"].moID,
                                   afterCancel |-> CtxDone(StreamTok)])
    /\ lm' = IF cm["stream"].err # nil
             THEN [lm EXCEPT !.pc = "done", !.errors = @ + 1, !.ret = cm["stream"].err]
             ELSE [lm EXCEPT !.pc = "sleep"]
    /\ UNCHANGED <<xidCount, store, profileq, fired, cm, watch>>
    /\ UNCHANGED <<issued, assignVars, logVars>>

\* LMAfterCall without the Send.
LMAfterCall_NoSend ==
    /\ lm.pc = "call"
    /\ cm["stream"].pc = "done"
    /\ lm' = IF cm["stream"].err # nil
             THEN [lm EXCEPT !.pc = "done", !.errors = @ + 1, !.ret = cm["stream"].err]
             ELSE [lm EXCEPT !.pc = "sleep"]
    /\ UNCHANGED <<xidCount, store, profileq, fired, cm, watch, emitted>>
    /\ UNCHANGED <<issued, assignVars, logVars>>

\* LMAfterCall logging the error and going on with the loop.
LMAfterCall_ContinueOnError ==
    /\ lm.pc = "call"
    /\ cm["stream"].pc = "done"
    /\ IF cm["stream"].err # nil
       THEN /\ lm' = [lm EXCEPT !.pc = "sleep", !.errors = @ + 1]
            /\ UNCHANGED emitted
       ELSE /\ emitted' = Append(emitted, [mo |-> cm["stream"].ret,
                                           moID |-> cm["stream"].moID,
                                           afterCancel |-> CtxDone(StreamTok)])
            /\ lm' = [lm EXCEPT !.pc = "sleep"]
    /\ UNCHANGED <<xidCount, store, profileq, fired, cm, watch>>
    /\ UNCHANGED <<issued, assignVars, logVars>>

\* The inner CreateMatch has returned (mo, err): return err, or Send(mo).
\* An entry of emitted is the message sent, with the moID of the invocation
\* it came from and whether the stream's context was done when it was sent.
LMAfterCall ==
    /\ lm.pc = "call"
    /\ cm["stream"].pc = "done"
    /\ IF cm["stream"].err # nil
       THEN /\ lm' = [lm EXCEPT !.pc = "done", !.errors = @ + 1, !.ret = cm["stream"].err]
            /\ UNCHANGED emitted
       ELSE /\ emitted' = Append(emitted, [mo |-> cm["stream"].ret,
                                           moID |-> cm["stream"].moID,
                                           afterCancel |-> CtxDone(StreamTok)])
            /\ lm' = [lm EXCEPT !.pc = "sleep"]
    /\ UNCHANGED <<xidCount, store, profileq, fired, cm, watch>>
    /\ UNCHANGED <<issued, assignVars, logVars>>

\* time.Sleep(2 * time.Second) is over.
LMWake ==
    /\ lm.pc = "sleep"
    /\ lm' = [lm EXCEPT !.pc = "check"]
    /\ UNCHANGED <<xidCount, store, profileq, fired, cm, watch, emitted>>
    /\ UNCHANGED <<issued, assignVars, logVars>>

Next ==
    \/ RpcCreateMatch
    \/ RpcListMatches
    \/ \E i \in Procs : CMWrite(i)
    \/ \E i \in Procs : CMEnqueue(i)
    \/ \E i \in Procs : CMOpenWatch(i)
    \/ \E i \in Procs : WatcherDeliver(i)
    \/ \E i \in Procs : WatcherClose(i)
    \/ \E i \in Procs : CMRecv(i)
    \/ MMFWrite
    \/ Cancel
    \/ LMCheck
    \/ LMAfterCall
    \/ LMWake

Spec == Init /\ [][Next]_vars

\* A step of the CreateMatch invocation of goroutine i or of its Watcher.
CallStep(i) ==
    \/ CMWrite(i)
    \/ CMEnqueue(i)
    \/ CMOpenWatch(i)
    \/ WatcherClose(i)
    \/ CMRecv(i)

\* The steps of a call are taken by running goroutines, the state storage
\* answers every call made to it, and the backoff of a Watcher has a maximum
\* elapsed time: a call in progress is not postponed for ever.
Fairness == \A i \in Procs : WF_vars(CallStep(i))

FairSpec == Spec /\ Fairness

\* ------------------------------------------------------------ assignments
\* getPlayerIdsFromRoster: the loop that appends p.Id for every player p.
RECURSIVE AppendIds(_, _)
AppendIds(playerIDs, ps) ==
    IF ps = <<>> THEN playerIDs
    ELSE AppendIds(Append(playerIDs, Head(ps).Id), Tail(ps))

\* getPlayerIdsFromRoster leaving out the players without an id.
getPlayerIdsFromRoster_SkipEmpty(r) ==
    SelectSeq(AppendIds(<<>>, r.Players), LAMBDA id : id # "")

\* getPlayerIdsFromRoster(r)
getPlayerIdsFromRoster(r) == AppendIds(<<>>, r.Players)

\* The loop through the players of a roster: a player with an id is entered
\* in the map players with its own assignment, or with the default one of
\* the Assignments message when it has none; an entry of the same id is
\* overwritten.
RECURSIVE PlayerLoop(_, _, _)
PlayerLoop(players, ps, dflt) ==
    IF ps = <<>> THEN players
    ELSE LET player == Head(ps)
             asg    == IF player.Assignment = "" THEN dflt ELSE player.Assignment
         IN  PlayerLoop(IF player.Id # ""
                        THEN (player.Id :> asg) @@ players
                        ELSE players,
                        Tail(ps), dflt)

\* The loop through the rosters: the map of the players and the list of the
\* ids of every roster.
RECURSIVE RosterLoop(_, _, _, _)
RosterLoop(players, playerIDs, rosters, dflt) ==
    IF rosters = <<>> THEN [players |-> players, playerIDs |-> playerIDs]
    ELSE LET roster == Head(rosters)
         IN  RosterLoop(PlayerLoop(players, roster.Players, dflt),
                        playerIDs \o getPlayerIdsFromRoster(roster),
                        Tail(rosters), dflt)

\* CollectPlayers without the default assignment of the message.
CollectPlayers_NoDefault(a) == RosterLoop(<< >>, <<>>, a.Rosters, "")

\* The two loops of CreateAssignments, from an empty map and an empty list.
CollectPlayers(a) == RosterLoop(<< >>, <<>>, a.Rosters, a.Assignment)

\* The state storage as a call finds it.
Snapshot == [assignment |-> assignment, proposed |-> proposed, deindexed |-> deindexed]

\* A client calls the CreateAssignments RPC: the code up to the batch write.
RpcCreateAssignments ==
    /\ ca.pc \in {"idle", "done"}
    /\ "CreateAssignments" \notin ca.calls
    /\ \E a \in Assignments :
         LET c == CollectPlayers(a)
         IN  ca' = [IdleAssign EXCEPT !.pc = "update", !.fn = "CreateAssignments",
                                      !.a = a, !.players = c.players,
                                      !.playerIDs = c.playerIDs, !.pre = Snapshot,
                                      !.calls = ca.calls \cup {"CreateAssignments"}]
    /\ UNCHANGED <<assignment, proposed, deindexed>>
    /\ UNCHANGED <<matchVars, logVars>>

\* redisHelpers.UpdateMultiFields(players, "assignment"): the field of every
\* key of the map is set to its value.
UpdateMultiFields(fields, players) ==
    [p \in DOMAIN fields |-> IF p \in DOMAIN players THEN players[p] ELSE fields[p]]

\* err := redisHelpers.UpdateMultiFields(ctx, s.pool, players, "assignment")
CAUpdate ==
    /\ ca.pc = "update"
    /\ \/ /\ assignment' = UpdateMultiFields(assignment, ca.players)
          /\ ca' = [ca EXCEPT !.pc = "move", !.err = nil,
                              !.ops = Append(@, Op("UpdateMultiFields", ca.players, TRUE))]
       \/ /\ \E e \in StoreErrors :
               ca' = [ca EXCEPT !.pc = "move", !.err = errorsNew(e),
                                !.ops = Append(@, Op("UpdateMultiFields", ca.players, FALSE))]
          /\ UNCHANGED assignment
    /\ UNCHANGED <<proposed, deindexed>>
    /\ UNCHANGED <<matchVars, logVars>>

\* The members of a list of ids.
Members(ids) == {ids[k] : k \in 1 .. Len(ids)}

\* ignorelist.Move(ids, "proposed", "deindexed"): the two lists after the ids
\* have been taken off the first and put on the second.
IgnorelistMove(ids) ==
    [proposed |-> proposed \ Members(ids), deindexed |-> deindexed \cup Members(ids)]

\* CAMove making the move only when the batch write succeeded.
CAMove_OnlyOnSuccess ==
    /\ ca.pc = "move"
    /\ IF ca.err # nil
       THEN /\ ca' = [ca EXCEPT !.pc = "return"]
            /\ UNCHANGED <<proposed, deindexed>>
       ELSE \/ /\ proposed' = IgnorelistMove(ca.playerIDs).proposed
               /\ deindexed' = IgnorelistMove(ca.playerIDs).deindexed
               /\ ca' = [ca EXCEPT !.pc = "return",
                                   !.ops = Append(@, Op("Move", ca.playerIDs, TRUE))]
            \/ /\ ca' = [ca EXCEPT !.pc = "return",
                                   !.ops = Append(@, Op("Move", ca.playerIDs, FALSE))]
               /\ UNCHANGED <<proposed, deindexed>>
    /\ UNCHANGED assignment
    /\ UNCHANGED <<matchVars, logVars>>

\* ignorelist.Move(ctx, s.pool, playerIDs, "proposed", "deindexed"): the
\* move is made or the call fails; its error is not looked at.
CAMove ==
    /\ ca.pc = "move"
    /\ \/ /\ proposed' = IgnorelistMove(ca.playerIDs).proposed
          /\ deindexed' = IgnorelistMove(ca.playerIDs).deindexed
          /\ ca' = [ca EXCEPT !.pc = "return",
                              !.ops = Append(@, Op("Move", ca.playerIDs, TRUE))]
       \/ /\ ca' = [ca EXCEPT !.pc = "return",
                              !.ops = Append(@, Op("Move", ca.playerIDs, FALSE))]
          /\ UNCHANGED <<proposed, deindexed>>
    /\ UNCHANGED assignment
    /\ UNCHANGED <<matchVars, logVars>>

\* stats.Record(fnCtx, measure.M(n))
Measure(name, n) == [m |-> name, n |-> n]

\* CAReturn reporting a failed Move like a failed batch write.
CAReturn_MoveError ==
    /\ ca.pc = "return"
    /\ LET n == Cardinality(DOMAIN ca.players)
           e == IF ca.err # nil THEN ca.err
                ELSE IF ~ca.ops[Len(ca.ops)].ok THEN errorsNew("move failed")
                ELSE nil
       IN  IF e # nil
           THEN ca' = [ca EXCEPT !.pc = "done",
                                 !.metrics = <<Measure("BeGrpcErrors", 1),
                                               Measure("BeAssignmentFailures", n)>>,
                                 !.ret = Result(FALSE, e[1]),
                                 !.reterr = e]
           ELSE ca' = [ca EXCEPT !.pc = "done",
                                 !.metrics = <<Measure("BeGrpcRequests", 1),
                                               Measure("BeAssignments", n)>>,
                                 !.ret = Result(TRUE, ""),
                                 !.reterr = ca.err]
    /\ UNCHANGED <<assignment, proposed, deindexed>>
    /\ UNCHANGED <<matchVars, logVars>>

\* if err != nil { ... } and the rest of CreateAssignments.
CAReturn ==
    /\ ca.pc = "return"
    /\ LET n == Cardinality(DOMAIN ca.players)
       IN  IF ca.err # nil
           THEN ca' = [ca EXCEPT !.pc = "done",
                                 !.metrics = <<Measure("BeGrpcErrors", 1),
                                               Measure("BeAssignmentFailures", n)>>,
                                 !.ret = Result(FALSE, ca.err[1]),
                                 !.reterr = ca.err]
           ELSE ca' = [ca EXCEPT !.pc = "done",
                                 !.metrics = <<Measure("BeGrpcRequests", 1),
                                               Measure("BeAssignments", n)>>,
                                 !.ret = Result(TRUE, ""),
                                 !.reterr = ca.err]
    /\ UNCHANGED <<assignment, proposed, deindexed>>
    /\ UNCHANGED <<matchVars, logVars>>

\* A client calls the DeleteAssignments RPC: the code up to the batch clear.
RpcDeleteAssignments ==
    /\ ca.pc \in {"idle", "done"}
    /\ "DeleteAssignments" \notin ca.calls
    /\ \E r \in DeleteRosters :
         ca' = [IdleAssign EXCEPT !.pc = "clear", !.fn = "DeleteAssignments",
                                  !.r = r, !.assignments = getPlayerIdsFromRoster(r),
                                  !.pre = Snapshot,
                                  !.calls = ca.calls \cup {"DeleteAssignments"}]
    /\ UNCHANGED <<assignment, proposed, deindexed>>
    /\ UNCHANGED <<matchVars, logVars>>

\* redisHelpers.DeleteMultiFields(ids, "assignment"): the field of every key
\* of the list is deleted, and reads as empty afterwards.
DeleteMultiFields(fields, ids) ==
    [p \in DOMAIN fields |-> IF p \in Members(ids) THEN "" ELSE fields[p]]

\* err := redisHelpers.DeleteMultiFields(ctx, s.pool, assignments, "assignment")
DAClear ==
    /\ ca.pc = "clear"
    /\ \/ /\ assignment' = DeleteMultiFields(assignment, ca.assignments)
          /\ ca' = [ca EXCEPT !.pc = "cleared", !.err = nil,
                              !.ops = Append(@, Op("DeleteMultiFields", ca.assignments, TRUE))]
       \/ /\ \E e \in StoreErrors :
               ca' = [ca EXCEPT !.pc = "cleared", !.err = errorsNew(e),
                                !.ops = Append(@, Op("DeleteMultiFields", ca.assignments, FALSE))]
          /\ UNCHANGED assignment
    /\ UNCHANGED <<proposed, deindexed>>
    /\ UNCHANGED <<matchVars, logVars>>

\* DAReturn reporting success whatever the batch clear returned.
DAReturn_AlwaysSuccess ==
    /\ ca.pc = "cleared"
    /\ ca' = [ca EXCEPT !.pc = "done",
                        !.metrics = <<Measure("BeGrpcRequests", 1),
                                      Measure("BeAssignmentDeletions", Len(ca.assignments))>>,
                        !.ret = Result(TRUE, ""),
                        !.reterr = nil]
    /\ UNCHANGED <<assignment, proposed, deindexed>>
    /\ UNCHANGED <<matchVars, logVars>>

\* if err != nil { ... } and the rest of DeleteAssignments.
DAReturn ==
    /\ ca.pc = "cleared"
    /\ LET n == Len(ca.assignments)
       IN  IF ca.err # nil
           THEN ca' = [ca EXCEPT !.pc = "done",
                                 !.metrics = <<Measure("BeGrpcErrors", 1),
                                               Measure("BeAssignmentDeletionFailures", n)>>,
                                 !.ret = Result(FALSE, ca.err[1]),
                                 !.reterr = ca.err]
           ELSE ca' = [ca EXCEPT !.pc = "done",
                                 !.metrics = <<Measure("BeGrpcRequests", 1),
                                               Measure("BeAssignmentDeletions", n)>>,
                                 !.ret = Result(TRUE, ""),
                                 !.reterr = ca.err]
    /\ UNCHANGED <<assignment, proposed, deindexed>>
    /\ UNCHANGED <<matchVars, logVars>>

\* An MMF puts a player of its proposal on the ignore list "proposed".
MMFPropose ==
    /\ \E p \in (PlayerIds \ {""}) \ (proposed \cup deindexed) :
         proposed' = proposed \cup {p}
    /\ UNCHANGED <<assignment, deindexed, ca>>
    /\ UNCHANGED <<matchVars, logVars>>

\* The assignment calls of a director: it assigns the players of a match
\* once and deletes assignments once, one call at a time.
AssignNext ==
    \/ RpcCreateAssignments
    \/ CAUpdate
    \/ CAMove
    \/ CAReturn
    \/ RpcDeleteAssignments
    \/ DAClear
    \/ DAReturn
    \/ MMFPropose

AssignSpec == Init /\ [][AssignNext]_vars

\* ---------------------------------------------------------------- logging
\* The handlers, each of which assigns beLog before it logs.
HandlerFns ==
    {"CreateMatch", "ListMatches", "DeleteMatch", "CreateAssignments", "DeleteAssignments"}

\* entry.WithFields(fields): a new entry with the fields of the old one and
\* the given fields, which replace old fields of the same name.
WithFields(entry, fields) == fields @@ entry

\* The log.Fields a handler extends beLog with: CreateMatch its four fields,
\* every other handler its name.
Fields(f) ==
    IF f.fn = "CreateMatch"
    THEN [profileID |-> f.profileID, func |-> f.fn,
          matchObjectID |-> f.moID, requestKey |-> f.requestKey]
    ELSE [func |-> f.fn]

\* Goroutine g enters a handler: the code before the assignment of beLog.
LogEnter(g) ==
    /\ lg[g].pc \in {"idle", "done"}
    /\ \E fn \in HandlerFns :
         IF fn = "CreateMatch"
         THEN /\ xidCount < MaxCalls
              /\ \E profile \in Profiles :
                   lg' = [lg EXCEPT ![g] =
                            [IdleLog EXCEPT !.pc = "read", !.fn = fn,
                                            !.profileID = profile.Id,
                                            !.moID = xidNew,
                                            !.requestKey = RequestKey(xidNew, profile)]]
              /\ xidCount' = xidCount + 1
         ELSE /\ lg' = [lg EXCEPT ![g] = [IdleLog EXCEPT !.pc = "read", !.fn = fn]]
              /\ UNCHANGED xidCount
    /\ UNCHANGED beLog
    /\ UNCHANGED <<store, profileq, fired, cm, watch, lm, emitted, issued>>
    /\ UNCHANGED assignVars

\* beLog = beLog.WithFields(...), first half: the right-hand side reads beLog.
LogRead(g) ==
    /\ lg[g].pc = "read"
    /\ lg' = [lg EXCEPT ![g].pc = "assign", ![g].entry = beLog]
    /\ UNCHANGED beLog
    /\ UNCHANGED <<matchVars, assignVars>>

\* LogAssign under a lock held since the read: beLog as it is now is extended.
LogAssign_Locked(g) ==
    /\ lg[g].pc = "assign"
    /\ beLog' = WithFields(beLog, Fields(lg[g]))
    /\ lg' = [lg EXCEPT ![g].pc = "log"]
    /\ UNCHANGED <<matchVars, assignVars>>

\* beLog = beLog.WithFields(...), second half: the entry made from the one
\* that was read is stored in the package variable.
LogAssign(g) ==
    /\ lg[g].pc = "assign"
    /\ beLog' = WithFields(lg[g].entry, Fields(lg[g]))
    /\ lg' = [lg EXCEPT ![g].pc = "log"]
    /\ UNCHANGED <<matchVars, assignVars>>

\* beLog.Info("gRPC call executing"): the handler logs with the entry that
\* beLog holds now.
LogInfo(g) ==
    /\ lg[g].pc = "log"
    /\ lg' = [lg EXCEPT ![g].pc = "done", ![g].used = Append(@, beLog)]
    /\ UNCHANGED beLog
    /\ UNCHANGED <<matchVars, assignVars>>

\* The logging of two goroutines that run handlers at the same time.
LogNext ==
    \E g \in Procs :
      \/ LogEnter(g)
      \/ LogRead(g)
      \/ LogAssign(g)
      \/ LogInfo(g)

LogSpec == Init /\ [][LogNext]_vars

\* ------------------------------------------------------------------ claims
Returned(i) == cm[i].pc = "done"

\* The last state storage call of invocation i failed.
StorageFailed(i) ==
    /\ cm[i].ops # <<>>
    /\ ~cm[i].ops[Len(cm[i].ops)].ok

\* C1 as stated: every CreateMatch call returns (result, nil) with
\* result.Error = "" or (result, err) with err non-nil and result.Error # "".
C1_AsStated ==
    \A i \in Procs :
        Returned(i) =>
            \/ cm[i].err = nil /\ cm[i].ret.Error = ""
            \/ cm[i].err # nil /\ cm[i].ret.Error # ""

\* C1, amended: a CreateMatch call returns (result, nil) with result.Error = "",
\* or, when the store write or the enqueue failed, (empty match object, err)
\* with err non-nil and result.Error = "", or, once the watch was opened,
\* (result, err) with err non-nil and result.Error # "".
C1_ErrorPairing ==
    \A i \in Procs :
        Returned(i) =>
            IF StorageFailed(i)
            THEN cm[i].err # nil /\ cm[i].ret = EmptyMO
            ELSE \/ cm[i].err = nil /\ cm[i].ret.Error = ""
                 \/ cm[i].err # nil /\ cm[i].ret.Error # ""

\* A call whose enqueue failed has returned, and so has a call that got an
\* MMF error through its watch.
C1_Witness ==
    /\ \E i \in Procs : Returned(i) /\ StorageFailed(i) /\ Len(cm[i].ops) = 2
    /\ \E i \in Procs : Returned(i) /\ watch[i].state = "value" /\ cm[i].err # nil

\* The state storage calls of CreateMatch, in the order of its code.
OpOrder == <<"write", "enqueue", "watch">>

\* C2: within one CreateMatch call the store operations happen at most once
\* each, in the order write, enqueue, open watch, and each is issued only
\* after all the earlier ones have succeeded.
C2_StoreOpOrder ==
    \A i \in Procs :
        /\ Len(cm[i].ops) <= 3
        /\ \A n \in DOMAIN cm[i].ops :
             /\ cm[i].ops[n].op = OpOrder[n]
             /\ n < Len(cm[i].ops) => cm[i].ops[n].ok
        /\ (watch[i].state # "none") <=> (Len(cm[i].ops) = 3)

\* One call has returned on a failed write without enqueueing, another has
\* opened its watch after a write and an enqueue.
C2_Witness ==
    /\ \E i \in Procs : Returned(i) /\ Len(cm[i].ops) = 1 /\ StorageFailed(i)
    /\ \E i \in Procs : Len(cm[i].ops) = 3 /\ watch[i].state = "open"

C4_AsStated ==
    \A i \in Procs :
        (Returned(i) /\ watch[i].state = "value" /\ watch[i].val.Error = "") =>
            cm[i].ret = watch[i].val /\ cm[i].err = nil

DeadlineMsg == "backoff deadline exceeded"

InCall(i) == cm[i].pc \notin {"idle", "done"}

\* C5: every CreateMatch invocation eventually returns (no goroutine stays in
\* a call for ever), and once its context is done before the watch has
\* delivered a value, no value is delivered and the call returns an error
\* and no resolved result.
C5_Returns ==
    /\ \A i \in Procs : []<>(~InCall(i))
    /\ [][\A i \in Procs :
            (InCall(i) /\ cm[i].tok \in fired /\ watch[i].state # "value") =>
                /\ watch'[i].state # "value"
                /\ Returned(i)' => (cm'[i].err # nil /\ cm'[i].ret.Id = "")]_vars

\* A call has returned an error after its context was cancelled while it was
\* waiting on its watch.
C5_Witness ==
    \E i \in Procs :
        /\ Returned(i)
        /\ watch[i].state = "closed" /\ watch[i].cause = "cancel"
        /\ cm[i].err # nil

\* C6: when the write and the enqueue succeeded, no MMF has written to the
\* request key and the context is not done, a call that has returned has
\* returned a non-nil error, and both the error and the result's Error field
\* contain "backoff deadline exceeded".
C6_Timeout ==
    \A i \in Procs :
        ( /\ Returned(i)
          /\ ~StorageFailed(i)
          /\ cm[i].requestKey \notin DOMAIN store
          /\ cm[i].tok \notin fired ) =>
            /\ cm[i].err # nil
            /\ Contains(cm[i].err[1], DeadlineMsg)
            /\ Contains(cm[i].ret.Error, DeadlineMsg)

\* A call has returned after its watch timed out, with a queued request key
\* that no MMF has answered and a context that is not done.
C6_Witness ==
    \E i \in Procs :
        /\ Returned(i)
        /\ watch[i].state = "closed" /\ watch[i].cause = "timeout"
        /\ cm[i].requestKey \in profileq
        /\ cm[i].requestKey \notin DOMAIN store
        /\ cm[i].tok \notin fired

\* C7 as stated: no message is emitted on the stream after the context of
\* ListMatches has been cancelled.
C7_AsStated ==
    \A n \in DOMAIN emitted : ~emitted[n].afterCancel

\* C7, amended: a message emitted after the cancellation is the resolved
\* result of the inner CreateMatch that was in flight (its watch had delivered
\* before the context was done), and it is the last message of the stream;
\* nothing is emitted once ListMatches has returned.
C7_NoEmitAfterObserved ==
    /\ [](\A n \in DOMAIN emitted :
            emitted[n].afterCancel =>
                /\ n = Len(emitted)
                /\ emitted[n].mo.Error = ""
                /\ emitted[n].mo.Id = RequestKey(emitted[n].moID, lm.p))
    /\ [][lm.pc = "done" => emitted' = emitted]_vars

\* ListMatches has returned nil on a cancelled context after emitting a
\* message when the context was already done.
C7_Witness ==
    /\ lm.pc = "done" /\ lm.ret = nil
    /\ emitted # <<>>
    /\ emitted[Len(emitted)].afterCancel

\* The moIDs of the messages emitted.
EmittedIDs == [n \in DOMAIN emitted |-> emitted[n].moID]

\* The inner CreateMatch calls whose outcome ListMatches has dealt with
\* successfully: all those made, but the last while it is in flight or failed.
Settled ==
    IF lm.pc = "call" \/ (lm.pc = "done" /\ lm.ret # nil)
    THEN SubSeq(lm.started, 1, Len(lm.started) - 1)
    ELSE lm.started

\* C8: the iterations of a stream are serialized: an inner CreateMatch is
\* started only when the previous one has returned, every successful inner
\* CreateMatch yields exactly one message and a failed one none, and the
\* messages are emitted in the order of the calls.
C8_Serialized ==
    /\ [](EmittedIDs = Settled)
    /\ [](lm.pc = "sleep" =>
            /\ cm["stream"].err = nil
            /\ emitted[Len(emitted)].mo = cm["stream"].ret)
    /\ [](InCall("stream") => lm.pc = "call")
    /\ [][lm'.started # lm.started => ~InCall("stream")]_vars

\* Two inner calls have succeeded and two messages have been emitted.
C8_Witness ==
    /\ Len(emitted) = 2
    /\ emitted[1].moID # emitted[2].moID
    /\ lm.pc = "sleep"

\* C9 as stated: when ListMatches stops because its context was cancelled
\* (seen at the loop check, or by the inner CreateMatch whose watch was closed
\* by the cancellation), it returns no error.
C9_AsStated ==
    ( /\ lm.pc = "done"
      /\ StreamTok \in fired
      /\ \/ lm.requests = 1
         \/ watch["stream"].state = "closed" /\ watch["stream"].cause = "cancel" ) =>
        lm.ret = nil

\* C10: ListMatches returns the first error of an inner CreateMatch, and
\* after that error it starts no CreateMatch and emits no message.
C10_AbortOnError ==
    /\ []((Returned("stream") /\ cm["stream"].err # nil /\ lm.pc # "call") =>
            /\ lm.pc = "done"
            /\ lm.ret = cm["stream"].err
            /\ lm.started[Len(lm.started)] = cm["stream"].moID)
    /\ [][(lm.pc = "done" /\ lm.ret # nil) =>
            (lm' = lm /\ emitted' = emitted /\ cm'["stream"] = cm["stream"])]_vars

\* ListMatches has returned the error of an inner CreateMatch while xid has
\* ids left for further calls and the stream's context is not done.
C10_Witness ==
    /\ lm.pc = "done" /\ lm.ret # nil
    /\ lm.ret = cm["stream"].err
    /\ xidCount < MaxCalls
    /\ StreamTok \notin fired

\* The diagnostic of a closed channel that names the cancellation.
CancelMsg == "channel closed: " \o CtxCanceled

\* The diagnostic of a closed channel that names the backoff.
BackoffMsg == "channel closed: " \o DeadlineMsg

\* C15: no two CreateMatch invocations, concurrent or one after the other,
\* the iterations of ListMatches on one template included, have the same
\* request key, and the value a Watcher delivers to an invocation is the
\* record of that invocation's own request key.
C15_KeysUnique ==
    /\ \A m, n \in 1 .. Len(issued) : m # n => issued[m] # issued[n]
    /\ \A i \in Procs :
         cm[i].pc # "idle" => \E n \in 1 .. Len(issued) : issued[n] = cm[i].requestKey
    /\ \A i, j \in Procs :
         (i # j /\ cm[i].pc # "idle" /\ cm[j].pc # "idle")
            => cm[i].requestKey # cm[j].requestKey
    /\ \A i \in Procs :
         watch[i].state = "value" => watch[i].val.Id = cm[i].requestKey

\* Two invocations with the same profile id are in progress, one on the RPC
\* and one on the stream; the first has been delivered its result and the
\* second is still waiting for its own.
C15_Witness ==
    /\ InCall("rpc") /\ InCall("stream")
    /\ cm["rpc"].profile.Id = cm["stream"].profile.Id
    /\ watch["rpc"].state = "value"
    /\ cm["stream"].pc = "recv" /\ watch["stream"].state = "open"
    /\ Len(issued) = 2

C17_AsStated ==
    \A i \in Procs :
      (Returned(i) /\ watch[i].state = "closed") =>
        /\ (cm[i].ret.Error = CancelMsg) <=> (watch[i].cause = "cancel")
        /\ (cm[i].ret.Error = BackoffMsg) <=> (watch[i].cause = "timeout")

\* C17: the diagnostic of a closed channel reports what the context says
\* when CreateMatch looks at it after the receive: the cancellation exactly
\* when the context is done at that moment, the backoff deadline otherwise.
\* A channel closed by the cancellation is therefore always reported as
\* cancelled, and a reported backoff deadline is always one.
C17_ReportsContext ==
    [][\A i \in Procs :
         (cm[i].pc = "recv" /\ cm'[i].pc = "done" /\ watch[i].state = "closed") =>
           /\ (cm'[i].ret.Error = CancelMsg) <=> (cm[i].tok \in fired)
           /\ (cm'[i].ret.Error = BackoffMsg) <=> (cm[i].tok \notin fired)
           /\ watch[i].cause = "cancel" => cm'[i].ret.Error = CancelMsg
           /\ cm'[i].ret.Error = BackoffMsg => watch[i].cause = "timeout"]_vars

\* The backoff ran out, the context was cancelled before CreateMatch looked
\* at it, and the call reported the cancellation.
C17_Witness ==
    \E i \in Procs :
      /\ Returned(i) /\ watch[i].state = "closed"
      /\ watch[i].cause = "timeout"
      /\ cm[i].ret.Error = CancelMsg

\* C18 as stated: a CreateMatch call that has returned recorded exactly one
\* of the two outcome counters: BeGrpcErrors when it returned an error,
\* BeGrpcRequests when it returned none.
C18_AsStated ==
    \A i \in Procs :
      Returned(i) =>
        /\ cm[i].errors + cm[i].requests = 1
        /\ (cm[i].errors = 1) <=> (cm[i].err # nil)

\* The players of a list of rosters, roster after roster.
RECURSIVE AllPlayers(_)
AllPlayers(rosters) ==
    IF rosters = <<>> THEN <<>>
    ELSE Head(rosters).Players \o AllPlayers(Tail(rosters))

\* The assignment meant for a player: its own, or the default of the message.
Effective(player, a) ==
    IF player.Assignment = "" THEN a.Assignment ELSE player.Assignment

\* CreateAssignments has been called and has made its map and its id list.
InCreate == ca.fn = "CreateAssignments" /\ ca.pc # "idle"

\* C11 as stated: the map written by CreateAssignments holds, for every
\* player with an id, the player's own assignment or else the default, holds
\* nothing for the empty id, and on success the assignment count recorded is
\* the number of entries of the map.
C11_AsStated ==
    InCreate =>
      LET ps == AllPlayers(ca.a.Rosters)
      IN  /\ \A k \in 1 .. Len(ps) :
               ps[k].Id # "" => /\ ps[k].Id \in DOMAIN ca.players
                                /\ ca.players[ps[k].Id] = Effective(ps[k], ca.a)
          /\ "" \notin DOMAIN ca.players
          /\ (ca.pc = "done" /\ ca.ret.Success) =>
               ca.metrics[2] = Measure("BeAssignments", Cardinality(DOMAIN ca.players))

\* C11: the keys of the map written by CreateAssignments are the ids, other
\* than the empty one, of the players of all rosters, and every key is
\* mapped to the assignment of the last player with that id (roster order,
\* then player order): its own if it has one, else the default.  On success
\* the assignment count recorded is the number of entries of the map.
C11_LastWins ==
    InCreate =>
      LET ps == AllPlayers(ca.a.Rosters)
      IN  /\ DOMAIN ca.players = {ps[k].Id : k \in 1 .. Len(ps)} \ {""}
          /\ \A k \in 1 .. Len(ps) :
               (ps[k].Id # "" /\ \A j \in (k + 1) .. Len(ps) : ps[j].Id # ps[k].Id)
                  => ca.players[ps[k].Id] = Effective(ps[k], ca.a)
          /\ (ca.pc = "done" /\ ca.ret.Success) =>
               ca.metrics[2] = Measure("BeAssignments", Cardinality(DOMAIN ca.players))

\* CreateAssignments returned success for rosters in which an id occurs
\* twice with different assignments and a player has no id.
C11_Witness ==
    /\ InCreate /\ ca.pc = "done" /\ ca.ret.Success
    /\ LET ps == AllPlayers(ca.a.Rosters)
       IN  /\ \E j, k \in 1 .. Len(ps) :
                /\ j < k /\ ps[j].Id # "" /\ ps[j].Id = ps[k].Id
                /\ Effective(ps[j], ca.a) # Effective(ps[k], ca.a)
                /\ assignment[ps[k].Id] = Effective(ps[k], ca.a)
           /\ \E k \in 1 .. Len(ps) : ps[k].Id = ""
    /\ ca.metrics[2].n = 1

\* C12: CreateAssignments calls Move once on the ids it collected, after
\* the batch write and whether the batch write succeeded or failed.
C12_MoveOnce ==
    ca.fn = "CreateAssignments" =>
      /\ ca.pc = "update" => ca.ops = <<>>
      /\ ca.pc = "move" =>
           Len(ca.ops) = 1 /\ ca.ops[1].op = "UpdateMultiFields"
      /\ ca.pc \in {"return", "done"} =>
           /\ Len(ca.ops) = 2
           /\ ca.ops[1].op = "UpdateMultiFields"
           /\ ca.ops[2] = Op("Move", ca.playerIDs, ca.ops[2].ok)

\* The batch write failed and the move was made: a player that was on
\* "proposed" is on "deindexed" and has no assignment.
C12_Witness ==
    /\ InCreate /\ ca.pc = "done"
    /\ ~ca.ops[1].ok /\ ca.ops[2].ok
    /\ \E p \in Members(ca.playerIDs) :
         /\ p \in ca.pre.proposed /\ p \notin proposed /\ p \in deindexed
         /\ assignment[p] = ""

\* C13: CreateAssignments returns {Success: false, Error: e} with the error
\* e exactly when the batch write failed with e, and {Success: true} with a
\* nil error otherwise, whatever Move returned.
C13_WriteDecides ==
    (InCreate /\ ca.pc = "done") =>
      IF ca.ops[1].ok
      THEN ca.ret = Result(TRUE, "") /\ ca.reterr = nil
      ELSE /\ ca.reterr # nil /\ ca.reterr[1] \in StoreErrors
           /\ ca.ret = Result(FALSE, ca.reterr[1])

\* The batch write succeeded, Move failed, and the call returned success.
C13_Witness ==
    /\ InCreate /\ ca.pc = "done"
    /\ ca.ops[1].ok /\ ~ca.ops[2].ok
    /\ ca.ret.Success /\ ca.reterr = nil
    /\ DOMAIN ca.players # {}

\* C14: when DeleteAssignments has returned success the assignment of every
\* player of its roster is empty and that of every other player is what it
\* was before the call; when the batch clear failed it returns
\* {Success: false, Error: e} with the error e of the batch clear.
C14_Cleared ==
    (ca.fn = "DeleteAssignments" /\ ca.pc = "done") =>
      LET ids == {ca.r.Players[k].Id : k \in 1 .. Len(ca.r.Players)}
      IN  IF ca.ops[1].ok
          THEN /\ ca.ret = Result(TRUE, "") /\ ca.reterr = nil
               /\ \A p \in PlayerIds :
                    assignment[p] = IF p \in ids THEN "" ELSE ca.pre.assignment[p]
          ELSE /\ ca.reterr # nil /\ ca.reterr[1] \in StoreErrors
               /\ ca.ret = Result(FALSE, ca.reterr[1])
               /\ assignment = ca.pre.assignment

\* DeleteAssignments returned success on a roster with a player that
\* CreateAssignments had assigned, another assigned player not being in it.
C14_Witness ==
    /\ ca.fn = "DeleteAssignments" /\ ca.pc = "done" /\ ca.ret.Success
    /\ "CreateAssignments" \in ca.calls
    /\ \E p, q \in PlayerIds :
         /\ p \in Members(ca.assignments) /\ ca.pre.assignment[p] # ""
         /\ q \notin Members(ca.assignments) /\ assignment[q] # ""

\* C19: the handlers log with the one package variable beLog, which each of
\* them reads, extends and assigns without a lock: a handler logs with the
\* entry beLog holds at that moment, whoever assigned it; its assignment
\* stores the entry it had read, extended with its own fields, whatever
\* beLog holds by then; and a step of one goroutine changes nothing of the
\* other goroutine's handler.
C19_SharedContext ==
    [][\A g \in Procs :
         /\ (lg[g].pc = "log" /\ lg'[g].pc = "done") =>
              lg'[g].used = Append(lg[g].used, beLog)
         /\ (lg[g].pc = "assign" /\ lg'[g].pc = "log") =>
              /\ beLog' = WithFields(lg[g].entry, Fields(lg[g]))
              /\ \A h \in Procs \ {g} : lg'[h] = lg[h]
         /\ lg'[g] # lg[g] => \A h \in Procs \ {g} : lg'[h] = lg[h]]_vars

\* A CreateMatch call logged with an entry that carries the func of the
\* other goroutine's handler, still in progress, and no requestKey: the
\* call's own fields were lost when the other handler assigned beLog.
C19_Witness ==
    \E g \in Procs : \E h \in Procs \ {g} :
      /\ lg[g].fn = "CreateMatch" /\ lg[g].pc = "done"
      /\ lg[h].fn \notin {"", "CreateMatch"} /\ lg[h].pc = "log"
      /\ lg[h].entry = beLogFields
      /\ lg[g].used[1]["func"] = lg[h].fn
      /\ "requestKey" \notin DOMAIN lg[g].used[1]

\* C20: the list CreateAssignments hands to Move has one entry for every
\* player of every roster, in roster order and then player order: the id of
\* the player, empty or not and listed before or not.  Its length is the
\* number of players, and the keys of the map are the ids of the list that
\* are not empty.
C20_IdList ==
    InCreate =>
      LET ps == AllPlayers(ca.a.Rosters)
      IN  /\ ca.playerIDs = [k \in 1 .. Len(ps) |-> ps[k].Id]
          /\ Len(ca.playerIDs) = Len(ps)
          /\ DOMAIN ca.players = Members(ca.playerIDs) \ {""}
          /\ Len(ca.ops) = 2 => ca.ops[2].key = ca.playerIDs

\* Move was called with a list of three ids for a map of one entry: an id
\* that occurs in both rosters and an empty id.
C20_Witness ==
    /\ InCreate /\ Len(ca.ops) = 2
    /\ Len(ca.a.Rosters) = 2
    /\ \E id \in PlayerIds \ {""} : ca.ops[2].key = <<id, "", id>>
    /\ Cardinality(DOMAIN ca.players) = 1
====
